---- MODULE Spec2Model ----
(***************************************************************************)
(* Cranial Coordinator (bin/coordinator.py) run by several worker          *)
(* processes over the key-value store of the repository, FakeClient        *)
(* (cranial/messaging/test/test_coordinator.py), as the __main__ block of  *)
(* coordinator.py runs it: the parent initialises the store, then forks    *)
(* one process per worker.  Every process shares the store dictionary but  *)
(* has its own copy of the client's read counter `rev` and of its lease    *)
(* table.                                                                  *)
(*                                                                         *)
(* Strings.  A store key '/cc/x/y/z' is the sequence <<"x","y","z">> of    *)
(* its path components behind the prefix.  A comma separated string such   *)
(* as '1,0' is the sequence of its fields <<"1","0">>, which is what       *)
(* str.split(',') returns; the empty string is <<"">> (''.split(',') is    *)
(* ['']).  Joining strings with ',' concatenates their field sequences.    *)
(* An Optional[int] is <<>> (None) or <<n>>.                               *)
(*                                                                         *)
(* Time.  Every clock value held in the state (a registration deadline, a  *)
(* lease expiry, last_checkin, starttime) is kept relative to the present, *)
(* so time() is 0 and Tick shifts the held values down.  A value is        *)
(* clamped at the first point where no comparison of the program can tell  *)
(* it from a smaller one.                                                  *)
(***************************************************************************)
EXTENDS Integers, Sequences, FiniteSets, TLC

\* ---------------------------------------------------------------- bounds
NumParts == 2        \* partitions given to init by the parent
NumMsgs == 2         \* ids 0 .. NumMsgs-1 yielded by every worker's producer
TickLen == 5         \* seconds between two observations of the clock
MaxRev == 3          \* the clients' read counters saturate here
MaxCrashes == 1      \* worker processes that may be killed

\* ------------------------------------------------------ program constants
CHECKIN == 1
LeaseFactor == 10
ReqTimeout == 2
FakeCheckpoint == 42

Workers == {"a", "b"}
MyIp == "127.0.0.1"
None == <<>>
EmptyStr == <<"">>

Digits == <<"0", "1", "2", "3", "4", "5", "6", "7", "8", "9">>

(* str(n) of a small natural number. *)
Str(n) == Digits[n + 1]

(* int(s) succeeds exactly on the decimal strings. *)
IsInt(s) == \E n \in 1..Len(Digits) : Digits[n] = s

ToInt(s) == (CHOOSE n \in 1..Len(Digits) : Digits[n] = s) - 1

Min(x, y) == IF x < y THEN x ELSE y

Max(x, y) == IF x < y THEN y ELSE x

(* A clock value d seconds later, seen from then; lo is its clamp. *)
Later(x, d, lo) == Max(x - d, lo)

(* The read counter after n more range calls. *)
Bump(r, n) == Min(r + n, MaxRev)

\* ------------------------------------------------------------------ store
(* str.startswith on one path component: within the names used here no     *)
(* component is a proper prefix of another except the empty string.        *)
StrPrefix(p, s) == p = "" \/ p = s

(* k.startswith(r) for a key k and a range argument r.  span(x) is x       *)
(* followed by the empty component.                                        *)
StartsWith(k, r) ==
    /\ Len(k) >= Len(r)
    /\ \A i \in 1..(Len(r) - 1) : k[i] = r[i]
    /\ Len(r) > 0 => StrPrefix(r[Len(r)], k[Len(r)])

span(key) == key \o <<"">>

HasKey(s, k) == \E i \in 1..Len(s) : s[i].k = k

IndexOf(s, k) == CHOOSE i \in 1..Len(s) : s[i].k = k

Lookup(s, k) == s[IndexOf(s, k)].v

(* dict[key] = value keeps the position of an existing key. *)
SetItem(s, k, v) ==
    IF HasKey(s, k)
    THEN [s EXCEPT ![IndexOf(s, k)] = [k |-> k, v |-> v]]
    ELSE Append(s, [k |-> k, v |-> v])

DelItem(s, k) == SelectSeq(s, LAMBDA e : e.k # k)

(* FakeClient.range: the entries whose key starts with r, in dictionary    *)
(* order, all tagged with the client's read counter.                       *)
RangeKV(s, r, rev) ==
    LET hit == SelectSeq(s, LAMBDA e : StartsWith(e.k, r))
    IN [i \in 1..Len(hit) |-> [k |-> hit[i].k, v |-> hit[i].v, rev |-> rev]]

(* FakeClient.put, with its simulation of worker 'a' answering a direct    *)
(* request and of the group answering a request for partition 6.           *)
FakePut(s, k, v) ==
    LET s1 == SetItem(s, k, v)
        s2 == IF k = <<"req", "a">> /\ HasKey(s1, <<"parts", "a">>)
                 /\ \E i \in 1..Len(Lookup(s1, <<"parts", "a">>)) :
                        Lookup(s1, <<"parts", "a">>)[i] = "1"
              THEN SetItem(SetItem(s1, <<"checkpoint", "1">>, <<FakeCheckpoint>>),
                           <<"ack", v[1], "a">>, <<v[2], "1">>)
              ELSE s1
        s3 == IF StartsWith(k, <<"group-req", "6">>)
                 /\ HasKey(s2, <<"parts", "unassigned", "6">>)
              THEN SetItem(s2, <<"ack", Str(v[2]), "group", k[Len(k)], "6">>, <<"1">>)
              ELSE s2
    IN s3

(* get_single_value: the value of the first entry of range(key), or        *)
(* Response.EMPTY.  The members of the Response enumeration are distinct   *)
(* from every stored byte string.                                          *)
Empty == <<>>
ResponseOK == <<"Response.OK">>
ResponseDENY == <<"Response.DENY">>

get_single_value(s, key) ==
    LET res == RangeKV(s, key, 0)
    IN IF Len(res) < 1 THEN Empty ELSE res[1].v

(* init: the store after init(cl, num_parts) on a store without init flag. *)
RECURSIVE PutUnassigned(_, _, _)
PutUnassigned(s, n, num_parts) ==
    IF n >= num_parts THEN s
    ELSE PutUnassigned(FakePut(s, <<"parts", "unassigned", Str(n)>>, <<"int", 0>>),
                       n + 1, num_parts)

(* The same writes with the slot numbering started at 1. *)
InitStoreFromOne(s, num_parts) ==
    PutUnassigned(FakePut(FakePut(s, <<"init">>, <<"1">>),
                          <<"parts", "total">>, <<Str(num_parts)>>),
                  1, num_parts)

InitStore(s, num_parts) ==
    PutUnassigned(FakePut(FakePut(s, <<"init">>, <<"1">>),
                          <<"parts", "total">>, <<Str(num_parts)>>),
                  0, num_parts)

(* init(cl, num_parts): the text of the exception it ends with ("" when it *)
(* returns) and the store it leaves.                                       *)
InitError == "Store already initialized."

(* The writes of init made without reading the flag first. *)
InitUnguarded(s, num_parts) == [err |-> "", s |-> InitStore(s, num_parts)]

init(s, num_parts) ==
    IF get_single_value(s, <<"init">>) = <<"1">>
    THEN [err |-> InitError, s |-> s]
    ELSE [err |-> "", s |-> InitStore(s, num_parts)]

\* ---------------------------------------------------------- small helpers
key_tail(k) == k[Len(k)]

(* w[KEY].decode().split('/')[-2] of '/cc/...'. *)
KeyOwner(k) == IF Len(k) >= 2 THEN k[Len(k) - 1] ELSE "cc"

RemoveAt(q, j) == [i \in 1..(Len(q) - 1) |-> IF i < j THEN q[i] ELSE q[i + 1]]

(* ','.join(names) *)
RECURSIVE Join(_)
Join(names) ==
    IF Len(names) = 0 THEN EmptyStr
    ELSE IF Len(names) = 1 THEN names[1]
    ELSE names[1] \o Join(Tail(names))

(* bool(bytes) *)
Truthy(b) == b # None /\ b # EmptyStr

group_req_key(p) == <<"group-req", p.part[1], p.requestor>>

GroupAckKey(p) == <<"ack", p.requestor, "group", Str(p.revision), p.part[1]>>

SingleAckKey(p) == <<"ack", p.requestor, p.recipient[1]>>

(* A scheduled coroutine that writes to the store. *)
Task(op, k, v) == [op |-> op, k |-> k, v |-> v]

NoResp == [st |-> "none", res |-> <<>>]
SchedResp == [st |-> "sched", res |-> <<>>]

\* --------------------------------------------------------------- registry
(* The share with one more worker in the divisor than are registered. *)
fairWithOneMore(s, num_parts) ==
    num_parts \div (Len(RangeKV(s, span(<<"workers">>), 0)) + 1)

(* A share that is never below one partition. *)
fairAtLeastOne(s, num_parts) ==
    Max(1, num_parts \div (Len(RangeKV(s, span(<<"workers">>), 0)) + 1))

(* fair: int(num_parts / (len(workers) or 1)) *)
fair(s, num_parts) ==
    LET n == Len(RangeKV(s, span(<<"workers">>), 0))
    IN num_parts \div (IF n = 0 THEN 1 ELSE n)

(* worker_has_expired_part is a stub. *)
worker_has_expired_part(s, worker_id) == FALSE

(* worker_is_dead: the answer and the coroutines it schedules. *)
worker_is_dead(s, worker_id) ==
    LET key == <<"workers", worker_id>>
        timeout == get_single_value(s, key)
    IN IF timeout = Empty THEN [dead |-> TRUE, tasks |-> <<>>]
       ELSE IF 0 > timeout[1] \/ worker_has_expired_part(s, worker_id)
            THEN [dead |-> TRUE,
                  tasks |-> <<Task("del", key, <<>>),
                              Task("unassign", <<"parts", worker_id>>, <<>>)>>]
            ELSE [dead |-> FALSE, tasks |-> <<>>]

\* ------------------------------------------------------ scheduled writes
(* A scheduled coroutine that is cancelled before its first step. *)
CancelledTask(st, task, expired) == st

(* One scheduled coroutine run by the event loop of a client whose lease   *)
(* table makes range fail (expired) or not.  st = [s, rev, spawned].       *)
RunTask(st, task, expired) ==
    CASE task.op = "del" -> [st EXCEPT !.s = DelItem(st.s, task.k)]
      [] task.op = "put" -> [st EXCEPT !.s = FakePut(st.s, task.k, task.v)]
      [] task.op = "unassign" ->
            \* unassign_worker_parts
            IF expired THEN st
            ELSE LET result == RangeKV(st.s, task.k, st.rev)
                     ps == IF Len(result) > 0 THEN result[1].v ELSE <<>>
                 IN [st EXCEPT
                       !.rev = Bump(st.rev, 1),
                       !.spawned = st.spawned \o
                           [i \in 1..Len(ps) |->
                               Task("put", <<"parts", "unassigned", ps[i]>>,
                                    <<"meta", st.rev>>)]]
      [] task.op = "delpending" ->
            \* delete_pending; v is the ack prefix of a group request.  The
            \* keys range returns are bytes, and path(resp[KEY]) raises
            \* TypeError on the first of them (bytes.startswith of the str
            \* prefix): the coroutine ends there and no delete of a
            \* response gets scheduled.
            IF ~HasKey(st.s, task.k) THEN st
            ELSE IF task.v = <<>> THEN [st EXCEPT !.s = DelItem(st.s, task.k)]
            ELSE IF expired THEN [st EXCEPT !.s = DelItem(st.s, task.k)]
            ELSE [st EXCEPT !.s = DelItem(st.s, task.k),
                            !.rev = Bump(st.rev, 1)]

RECURSIVE RunTasks(_, _, _)
RunTasks(st, queue, expired) ==
    IF Len(queue) = 0 THEN st
    ELSE RunTasks(RunTask(st, Head(queue), expired), Tail(queue), expired)

(* The coroutines in the queue run; those they schedule stay queued. *)
FlushEnd(s, r, queue, expired) ==
    RunTasks([s |-> s, rev |-> r, spawned |-> <<>>], queue, expired)

(* The event loop runs until nothing scheduled is left. *)
RECURSIVE FlushAll(_, _, _, _)
RECURSIVE FlushSpawned(_, _)
FlushSpawned(st, expired) ==
    IF Len(st.spawned) = 0 THEN st
    ELSE FlushAll(st.s, st.rev, st.spawned, expired)

FlushAll(s, r, queue, expired) ==
    FlushSpawned(FlushEnd(s, r, queue, expired), expired)

\* ------------------------------------------------------- confirm requests
(* The loop of check_all_responses over the registered workers ws from     *)
(* index i on.  acc = [tasks, rev]; the answer is Response.OK, "EMPTY"     *)
(* (try again) or Response.DENY.                                           *)
RECURSIVE CheckWorkers(_, _, _, _, _, _)
CheckWorkers(s, p, responses, ws, i, acc) ==
    IF i > Len(ws) THEN [ans |-> "OK", tasks |-> acc.tasks, rev |-> acc.rev]
    ELSE LET worker_id == KeyOwner(ws[i].k)
             hits == {j \in 1..Len(responses) : key_tail(responses[j].k) = worker_id}
             ack == IF hits = {} THEN Empty
                    ELSE responses[CHOOSE j \in hits : \A h \in hits : h <= j].v
         IN IF worker_id = p.requestor
            THEN CheckWorkers(s, p, responses, ws, i + 1, acc)
            ELSE IF ack = ResponseDENY
            THEN [ans |-> "DENY", tasks |-> acc.tasks, rev |-> acc.rev]
            ELSE IF ack = Empty
            THEN LET d == worker_is_dead(s, worker_id)
                     acc1 == [tasks |-> acc.tasks \o d.tasks,
                              rev |-> Bump(acc.rev, 1)]
                 IN IF ~d.dead
                    THEN [ans |-> "EMPTY", tasks |-> acc1.tasks, rev |-> acc1.rev]
                    ELSE CheckWorkers(s, p, responses, ws, i + 1, acc1)
            ELSE CheckWorkers(s, p, responses, ws, i + 1, acc)

check_all_responses(s, p, r) ==
    CheckWorkers(s, p, p.resp.res,
                 RangeKV(s, span(<<"workers">>), r), 1,
                 [tasks |-> <<>>, rev |-> Bump(r, 1)])

(* confirm_group_request.  The result is the answer, the request as it is  *)
(* left, the store, the scheduled coroutines, the read counter and whether *)
(* an exception escaped.                                                   *)
GroupAnswer(s, p, c) ==
    IF c.ans = "EMPTY"
    THEN [ans |-> "EMPTY", p |-> [p EXCEPT !.resp = SchedResp],
          s |-> s, tasks |-> c.tasks, rev |-> c.rev]
    ELSE IF c.ans = "DENY"
    THEN [ans |-> "DENY", p |-> p, s |-> s, tasks |-> c.tasks, rev |-> c.rev]
    ELSE [ans |-> "OK", p |-> p,
          s |-> DelItem(s, <<"unassigned", p.part[1]>>),
          tasks |-> Append(c.tasks, Task("del", group_req_key(p), <<>>)),
          rev |-> c.rev]

confirm_group_request(s, expired, p, r) ==
    IF p.resp.st = "error" \/ (p.resp.st = "done" /\ expired)
    THEN [ans |-> "RAISE", p |-> p, s |-> s, tasks |-> <<>>, rev |-> r]
    ELSE IF p.resp.st = "done"
    THEN GroupAnswer(s, p, check_all_responses(s, p, r))
    ELSE [ans |-> "EMPTY", p |-> [p EXCEPT !.resp = SchedResp], s |-> s,
          tasks |-> <<>>, rev |-> r]

(* confirm_single_request *)
confirm_single_request(s, expired, p, r) ==
    IF p.resp.st = "error"
    THEN [ans |-> "RAISE", p |-> p, s |-> s, tasks |-> <<>>, rev |-> r]
    ELSE IF p.resp.st = "done"
    THEN IF p.resp.res = Empty
         THEN [ans |-> "EMPTY", p |-> [p EXCEPT !.resp = SchedResp], s |-> s,
               tasks |-> <<>>, rev |-> r]
         ELSE LET confirm == p.resp.res[1]
                  q == [p EXCEPT !.part = <<p.resp.res[2]>>]
              IN IF confirm = p.revision
                 THEN [ans |-> "OK", p |-> q, s |-> s,
                       tasks |-> <<Task("del", SingleAckKey(p), <<>>)>>,
                       rev |-> r]
                 ELSE [ans |-> "RAISE", p |-> q, s |-> s, tasks |-> <<>>,
                       rev |-> r]
    ELSE [ans |-> "EMPTY", p |-> [p EXCEPT !.resp = SchedResp], s |-> s,
          tasks |-> <<>>, rev |-> r]

confirm_request(s, expired, p, r) ==
    IF p.group THEN confirm_group_request(s, expired, p, r)
    ELSE confirm_single_request(s, expired, p, r)

(* confirm_pending_requests: `for req in pending` while the body removes   *)
(* from pending, so the request behind a removed one is skipped.           *)
(* f = [pending, acks, s, sched, rev, raised].                             *)
RECURSIVE confirm_pending_requests(_, _, _)
RECURSIVE Confirmed(_, _, _, _, _)
(* One pass of the loop body: c is the answer of confirm_request, g the   *)
(* frame with its effects on the store and the event loop.                *)
Confirmed(expired, j, f, c, g) ==
    IF c.ans = "RAISE" THEN [g EXCEPT !.raised = TRUE]
    ELSE IF c.ans = "OK"
    THEN confirm_pending_requests(expired, j + 1,
            [g EXCEPT !.acks = Append(f.acks, c.p.part),
                      !.pending = RemoveAt(f.pending, j)])
    ELSE IF c.ans = "DENY"
    THEN confirm_pending_requests(expired, j + 1,
            [g EXCEPT !.pending = RemoveAt(f.pending, j)])
    ELSE confirm_pending_requests(expired, j + 1,
            [g EXCEPT !.pending[j] = c.p])

ConfirmOne(expired, j, f, c) ==
    Confirmed(expired, j, f, c,
              [f EXCEPT !.s = c.s, !.sched = f.sched \o c.tasks, !.rev = c.rev])

confirm_pending_requests(expired, j, f) ==
    IF f.raised \/ j > Len(f.pending) THEN f
    ELSE ConfirmOne(expired, j, f,
                    confirm_request(f.s, expired, f.pending[j], f.rev))

(* The scheduled reads of the pending requests complete. *)
RunResponse(s, expired, p, r) ==
    IF p.resp.st # "sched" THEN p
    ELSE IF expired THEN [p EXCEPT !.resp = [st |-> "error", res |-> <<>>]]
    ELSE IF p.group
    THEN [p EXCEPT !.resp = [st |-> "done",
                             res |-> RangeKV(s, span(GroupAckKey(p)), r)]]
    ELSE [p EXCEPT !.resp = [st |-> "done",
                             res |-> get_single_value(s, SingleAckKey(p))]]

\* ---------------------------------------------------------------- respond
(* respond: one vote per group request found, in the order of the range.   *)
RECURSIVE RespondVotes(_, _, _, _)
RespondVotes(st, group, i, myparts) ==
    IF i > Len(group) THEN st
    ELSE LET r == group[i]
             part == r.k[Len(r.k) - 1]
             worker == r.k[Len(r.k)]
             rv == r.v
             key == <<"ack", worker, "group", Str(rv[2]), part>>
             mine == \E n \in 1..Len(myparts) : myparts[n].p = <<part>>
             ok == ~mine /\ get_single_value(st.s, <<"parts", "unassigned", part>>) = rv
         IN RespondVotes(
                [s |-> FakePut(st.s, key, IF ok THEN <<"1">> ELSE <<"0">>),
                 rev |-> IF mine THEN st.rev ELSE Bump(st.rev, 1)],
                group, i + 1, myparts)

respond(s, r, myparts) ==
    RespondVotes([s |-> s, rev |-> Bump(r, 1)],
                 RangeKV(s, span(<<"group-req">>), r), 1, myparts)

\* -------------------------------------------------------------- req_parts
(* get_parts_with_total *)
get_parts_with_total(s, r) ==
    LET ps == RangeKV(s, span(<<"parts">>), r)
        hits == {i \in 1..Len(ps) : ps[i].k = <<"parts", "total">>}
        tot == IF hits = {} THEN 0
               ELSE ToInt(ps[CHOOSE i \in hits : \A h \in hits : i <= h].v[1])
    IN [parts |-> ps, total |-> tot, raised |-> tot = 0]

(* b'/unassigned/' in key *)
IsUnassigned(k) == \E i \in 1..(Len(k) - 1) : k[i] = "unassigned"

(* get_available_parts from entry i on; acc = [over, myparts]. *)
RECURSIVE AvailableFrom(_, _, _, _, _)
AvailableFrom(ws, num_fair, myid, i, acc) ==
    IF i > Len(ws) THEN acc
    ELSE LET w == ws[i]
         IN IF key_tail(w.k) = myid
            THEN AvailableFrom(ws, num_fair, myid, i + 1,
                               [acc EXCEPT !.myparts = w.v])
            ELSE IF Len(w.v) > num_fair
            THEN AvailableFrom(ws, num_fair, myid, i + 1,
                    [acc EXCEPT !.over = Append(acc.over,
                        [k |-> w.k, num |-> Len(w.v), rev |-> w.rev])])
            ELSE AvailableFrom(ws, num_fair, myid, i + 1, acc)

get_available_parts(ps, num_fair, myid) ==
    AvailableFrom(SelectSeq(ps, LAMBDA e : ~IsUnassigned(e.k)), num_fair, myid,
                  1, [over |-> <<>>, myparts |-> EmptyStr])

(* sorted(overworkers, key=lambda x: -x[VALUE]): stable, most parts first. *)
RECURSIVE SortedByNum(_)
SortedByNum(q) ==
    IF Len(q) = 0 THEN <<>>
    ELSE LET best == CHOOSE i \in 1..Len(q) :
                        /\ \A j \in 1..Len(q) : q[j].num <= q[i].num
                        /\ \A j \in 1..(i - 1) : q[j].num < q[i].num
         IN <<q[best]>> \o SortedByNum(RemoveAt(q, best))

(* req_overworked_parts: st = [s, pending]. *)
RECURSIVE ReqOverworked(_, _, _, _, _)
ReqOverworked(st, myid, over, i, how_many) ==
    IF i > Len(over) \/ ~(Len(st.pending) < how_many) THEN st
    ELSE LET name == key_tail(over[i].k)
             rv == over[i].rev
         IN ReqOverworked(
                [s |-> FakePut(st.s, <<"req", name>>, <<myid, rv>>),
                 pending |-> Append(st.pending,
                     [group |-> FALSE, requestor |-> myid, recipient |-> <<name>>,
                      revision |-> rv, part |-> None, resp |-> SchedResp])],
                myid, over, i + 1, how_many)

req_overworked_parts(s, myid, overworkers, how_many) ==
    ReqOverworked([s |-> s, pending |-> <<>>], myid, SortedByNum(overworkers),
                  1, how_many)

(* get_checkpoint of the partition named by a comma separated string: no   *)
(* key holds a comma, so only a one-field name can match.                  *)
get_checkpoint(s, name) ==
    LET result == IF Len(name) = 1
                  THEN RangeKV(s, <<"checkpoint", name[1]>>, 0)
                  ELSE <<>>
    IN IF Len(result) = 0 THEN None ELSE <<result[1].v[1]>>

(* {p: await get_checkpoint(cl, p) for p in acks} as an ordered dict. *)
RECURSIVE OwnershipMap(_, _, _)
OwnershipMap(s, acks, d) ==
    IF Len(acks) = 0 THEN d
    ELSE LET e == [p |-> Head(acks), last |-> get_checkpoint(s, Head(acks))]
             hits == {i \in 1..Len(d) : d[i].p = e.p}
         IN OwnershipMap(s, Tail(acks),
                IF hits = {} THEN Append(d, e)
                ELSE [d EXCEPT ![CHOOSE i \in hits : TRUE] = e])

\* ------------------------------------------------------------------ state
VARIABLES
    main,          \* the parent process: "init" before init(cl), then "forked"
    store,         \* FakeClient.store, in dictionary order
    out,           \* the list the workers' output function appends to
    pc,            \* where each worker is in worker()
    idx,           \* the message id each worker's producer yields next
    parts,         \* worker(): parts, the ordered dict partition -> last id
    total_parts,   \* worker(): total_parts (0 while unbound)
    last_checkin,  \* worker(): last_checkin
    rev,           \* FakeClient.rev of each process
    lease,         \* FakeClient.leases of each process: None or <<expiry>>
    sched,         \* coroutines scheduled on each event loop and not yet run
    rq,            \* the locals of the running req_parts call
    crashes        \* number of workers killed so far

vars == <<main, store, out, pc, idx, parts, total_parts, last_checkin,
          rev, lease, sched, rq, crashes>>

NoFrame == [snap |-> <<>>, total |-> 0, fair |-> 0, unassigned |-> <<>>,
            cur |-> <<>>, slot |-> 0, pending |-> <<>>, acks |-> <<>>, myparts |-> None,
            starttime |-> 0]

(* last_checkin = 0 is the epoch: a checkin is long due. *)
LongAgo == 0 - (CHECKIN + 1)

Init ==
    /\ main = "init"
    /\ store = <<>>
    /\ out = <<>>
    /\ pc = [w \in Workers |-> "start"]
    /\ idx = [w \in Workers |-> 0]
    /\ parts = [w \in Workers |-> <<>>]
    /\ total_parts = [w \in Workers |-> 0]
    /\ last_checkin = [w \in Workers |-> LongAgo]
    /\ rev = [w \in Workers |-> 0]
    /\ lease = [w \in Workers |-> None]
    /\ sched = [w \in Workers |-> <<>>]
    /\ rq = [w \in Workers |-> NoFrame]
    /\ crashes = 0

(* FakeClient.range raises once a lease of the process has run out:        *)
(* `if t < time()` runs into `del(self.store[key])` for a key that is one  *)
(* character of the registered key.                                        *)
LeaseExpired(w) == lease[w] # None /\ lease[w][1] < 0

(* The process of worker w ends, with its return or with an exception:     *)
(* its memory is gone.                                                     *)
Exit(w, how) ==
    /\ pc' = [pc EXCEPT ![w] = how]
    /\ rq' = [rq EXCEPT ![w] = NoFrame]
    /\ sched' = [sched EXCEPT ![w] = <<>>]
    /\ parts' = [parts EXCEPT ![w] = <<>>]
    /\ total_parts' = [total_parts EXCEPT ![w] = 0]
    /\ last_checkin' = [last_checkin EXCEPT ![w] = LongAgo]
    /\ lease' = [lease EXCEPT ![w] = None]
    /\ idx' = [idx EXCEPT ![w] = 0]

Raise(w) == Exit(w, "crashed")

\* ---------------------------------------------------------------- actions
(* __main__: run(init(cl)), then the worker processes are forked with a    *)
(* copy of the client.                                                     *)
ParentInit ==
    /\ main = "init"
    /\ get_single_value(store, <<"init">>) # <<"1">>
    /\ store' = InitStore(store, NumParts)
    /\ rev' = [w \in Workers |-> Bump(0, 1)]
    /\ main' = "forked"
    /\ UNCHANGED <<out, pc, idx, parts, total_parts, last_checkin, lease,
                   sched, rq, crashes>>

(* register *)
Register(w) ==
    /\ main = "forked"
    /\ pc[w] = "start"
    /\ lease' = [lease EXCEPT ![w] = <<0 + CHECKIN * LeaseFactor>>]
    /\ store' = FakePut(store, <<"workers", w, MyIp>>,
                        <<0 + CHECKIN * LeaseFactor>>)
    /\ pc' = [pc EXCEPT ![w] = "loop"]
    /\ UNCHANGED <<main, out, idx, parts, total_parts, last_checkin, rev,
                   sched, rq, crashes>>

(* worker(): the producer is exhausted. *)
Done(w) ==
    /\ pc[w] = "loop"
    /\ idx[w] >= NumMsgs
    /\ Exit(w, "done")
    /\ rev' = [rev EXCEPT ![w] = 0]
    /\ UNCHANGED <<main, store, out, crashes>>

(* worker(): a checkin is due; run(respond(cl, myid, parts)). *)
Respond(w) ==
    /\ pc[w] = "loop"
    /\ idx[w] < NumMsgs
    /\ 0 - last_checkin[w] > CHECKIN
    /\ LET fl == FlushAll(store, rev[w], sched[w], LeaseExpired(w))
       IN IF LeaseExpired(w)
          THEN /\ store' = fl.s
               /\ rev' = [rev EXCEPT ![w] = 0]
               /\ Raise(w)
          ELSE LET r == respond(fl.s, fl.rev, parts[w])
               IN /\ store' = r.s
                  /\ rev' = [rev EXCEPT ![w] = r.rev]
                  /\ pc' = [pc EXCEPT ![w] = "req_parts"]
                  /\ sched' = [sched EXCEPT ![w] = <<>>]
                  /\ UNCHANGED <<rq, parts, total_parts, last_checkin, lease,
                                 idx>>
    /\ UNCHANGED <<main, out, crashes>>

(* req_parts: get_parts_with_total and fair. *)
ReadParts(w) ==
    /\ pc[w] = "req_parts"
    /\ LET g == get_parts_with_total(store, rev[w])
           num_fair == fair(store, g.total)
       IN IF LeaseExpired(w) \/ g.raised
          THEN Raise(w) /\ rev' = [rev EXCEPT ![w] = 0]
          ELSE /\ rq' = [rq EXCEPT ![w] =
                    [NoFrame EXCEPT
                        !.snap = g.parts, !.total = g.total, !.fair = num_fair,
                        !.unassigned = IF 0 < num_fair
                                       THEN SelectSeq(g.parts,
                                                LAMBDA e : IsUnassigned(e.k))
                                       ELSE <<>>]]
               /\ rev' = [rev EXCEPT ![w] = Bump(rev[w], 2)]
               /\ pc' = [pc EXCEPT ![w] = "unassigned"]
               /\ UNCHANGED <<sched, parts, total_parts, last_checkin, lease,
                              idx>>
    /\ UNCHANGED <<main, store, out, crashes>>

(* req_unassigned_parts: pop a slot; req_partition_from_group looks for an *)
(* existing request.                                                       *)
GroupCheck(w) ==
    /\ pc[w] = "unassigned"
    /\ Len(rq[w].pending) < rq[w].fair
    /\ Len(rq[w].unassigned) > 0
    /\ LET u == rq[w].unassigned
           p == u[Len(u)]
           rest == SubSeq(u, 1, Len(u) - 1)
       IN IF LeaseExpired(w)
          THEN Raise(w) /\ rev' = [rev EXCEPT ![w] = 0]
          ELSE /\ rev' = [rev EXCEPT ![w] = Bump(rev[w], 1)]
               /\ IF get_single_value(store, <<"group-req", key_tail(p.k)>>) # Empty
                  THEN /\ rq' = [rq EXCEPT ![w].unassigned = rest]
                       /\ pc' = pc
                  ELSE /\ rq' = [rq EXCEPT ![w].unassigned = rest, ![w].cur = <<p>>]
                       /\ pc' = [pc EXCEPT ![w] = "groupput"]
               /\ UNCHANGED <<sched, parts, total_parts, last_checkin, lease,
                              idx>>
    /\ UNCHANGED <<main, store, out, crashes>>

(* req_partition_from_group: put the request; confirm_group_request        *)
(* schedules the first read of the responses.                              *)
GroupPut(w) ==
    /\ pc[w] = "groupput"
    /\ LET p == rq[w].cur[1]
           part == key_tail(p.k)
           req == [group |-> TRUE, requestor |-> w,
                   recipient |-> <<"group-req", part, w>>,
                   revision |-> p.rev, part |-> <<part>>, resp |-> SchedResp]
       IN /\ store' = FakePut(store, <<"group-req", part, w>>, <<"int", p.rev>>)
          /\ rq' = [rq EXCEPT ![w].pending = Append(rq[w].pending, req),
                              ![w].cur = <<>>]
    /\ pc' = [pc EXCEPT ![w] = "unassigned"]
    /\ UNCHANGED <<main, out, idx, parts, total_parts, last_checkin, rev,
                   lease, sched, crashes>>

(* req_parts behind req_unassigned_parts: look at the other workers'       *)
(* assignments, return early or ask the overworked, start the timer.       *)
Overwork(w) ==
    /\ pc[w] = "unassigned"
    /\ ~(Len(rq[w].pending) < rq[w].fair /\ Len(rq[w].unassigned) > 0)
    /\ LET f == rq[w]
           ga == get_available_parts(f.snap, f.fair, w)
           ro == req_overworked_parts(store, w, ga.over,
                                      f.fair - Len(f.pending))
       IN IF Len(f.pending) < f.fair
          THEN IF Len(ga.over) = 0 /\ Len(f.pending) = 0
               THEN \* return {}, total
                    /\ parts' = [parts EXCEPT ![w] = <<>>]
                    /\ total_parts' = [total_parts EXCEPT ![w] = f.total]
                    /\ last_checkin' = [last_checkin EXCEPT ![w] = 0]
                    /\ rq' = [rq EXCEPT ![w] = NoFrame]
                    /\ pc' = [pc EXCEPT ![w] = "dispatch"]
                    /\ store' = store
               ELSE /\ store' = ro.s
                    /\ rq' = [rq EXCEPT ![w].pending = f.pending \o ro.pending,
                                        ![w].myparts = ga.myparts,
                                        ![w].unassigned = <<>>,
                                        ![w].snap = <<>>,
                                        ![w].starttime = 0]
                    /\ pc' = [pc EXCEPT ![w] = "poll"]
                    /\ UNCHANGED <<parts, total_parts, last_checkin>>
          ELSE /\ rq' = [rq EXCEPT ![w].unassigned = <<>>,
                                   ![w].snap = <<>>,
                                   ![w].starttime = 0]
               /\ pc' = [pc EXCEPT ![w] = "poll"]
               /\ UNCHANGED <<store, parts, total_parts, last_checkin>>
    /\ UNCHANGED <<main, out, idx, rev, lease, sched, crashes>>

(* The frame confirm_pending_requests starts from, once asyncio.wait has  *)
(* run the event loop (fl) and the scheduled reads have completed.        *)
PollFrame(w, expired, fl) ==
    confirm_pending_requests(expired, 1,
        [pending |-> [i \in 1..Len(rq[w].pending) |->
                         RunResponse(fl.s, expired, rq[w].pending[i], fl.rev)],
         acks |-> rq[w].acks,
         s |-> fl.s,
         sched |-> <<>>,
         rev |-> IF expired THEN fl.rev
                 ELSE Bump(fl.rev,
                           Cardinality({i \in 1..Len(rq[w].pending) :
                                           rq[w].pending[i].resp.st = "sched"})),
         raised |-> FALSE])

(* The state after one pass of the while loop that left frame f. *)
Polled(w, expired, f) ==
    IF f.raised
    THEN /\ store' = FlushEnd(f.s, f.rev, f.sched, expired).s
         /\ rev' = [rev EXCEPT ![w] = 0]
         /\ Raise(w)
    ELSE /\ store' = f.s
         /\ rev' = [rev EXCEPT ![w] = f.rev]
         /\ sched' = [sched EXCEPT ![w] = f.sched]
         /\ rq' = [rq EXCEPT ![w].pending = f.pending, ![w].acks = f.acks]
         /\ UNCHANGED <<pc, parts, total_parts, last_checkin, lease, idx>>

(* req_parts: one turn of the while loop.  asyncio.wait lets the event     *)
(* loop run everything scheduled, then confirm_pending_requests runs.      *)
Poll(w) ==
    /\ pc[w] = "poll"
    /\ Len(rq[w].pending) > 0
    /\ 0 - rq[w].starttime < ReqTimeout
    /\ Polled(w, LeaseExpired(w),
              PollFrame(w, LeaseExpired(w),
                        FlushAll(store, rev[w], sched[w], LeaseExpired(w))))
    /\ UNCHANGED <<main, out, crashes>>

(* req_parts behind the while loop: drop what is still pending, write      *)
(* parts/<myid>, read the checkpoints; worker() takes the result.          *)
Finish(w) ==
    /\ pc[w] = "poll"
    /\ ~(Len(rq[w].pending) > 0 /\ 0 - rq[w].starttime < ReqTimeout)
    /\ LET f == rq[w]
           expired == LeaseExpired(w)
           drops == [i \in 1..Len(f.pending) |->
                        IF f.pending[i].group
                        THEN Task("delpending", group_req_key(f.pending[i]),
                                  GroupAckKey(f.pending[i]))
                        ELSE Task("delpending",
                                  <<"req", f.pending[i].recipient[1]>>, <<>>)]
           acks == IF Truthy(f.myparts) THEN Append(f.acks, f.myparts)
                   ELSE f.acks
           s1 == FakePut(store, <<"parts", w>>, Join(acks))
           raised == expired /\ Len(acks) > 0
           fe == FlushEnd(s1, IF raised THEN rev[w]
                              ELSE Bump(rev[w], Len(acks)),
                          sched[w] \o drops, expired)
       IN /\ store' = fe.s
          /\ IF raised
             THEN /\ Raise(w)
                  /\ rev' = [rev EXCEPT ![w] = 0]
             ELSE /\ parts' = [parts EXCEPT ![w] = OwnershipMap(s1, acks, <<>>)]
                  /\ total_parts' = [total_parts EXCEPT ![w] = f.total]
                  /\ last_checkin' = [last_checkin EXCEPT ![w] = 0]
                  /\ sched' = [sched EXCEPT ![w] = fe.spawned]
                  /\ rq' = [rq EXCEPT ![w] = NoFrame]
                  /\ pc' = [pc EXCEPT ![w] = "dispatch"]
                  /\ rev' = [rev EXCEPT ![w] = fe.rev]
                  /\ UNCHANGED <<lease, idx>>
    /\ UNCHANGED <<main, out, crashes>>

(* A scan that hands every message to the first entry of the map. *)
ScanFirst(d, i, tot, j) == IF Len(d) = 0 THEN 0 ELSE 1

(* worker(): the scan of parts.items() for message i.  The result is the   *)
(* index of the entry that takes the message, 0 for none, -1 when int(p)   *)
(* raises.                                                                 *)
RECURSIVE ScanParts(_, _, _, _)
ScanParts(d, i, tot, j) ==
    IF j > Len(d) THEN 0
    ELSE IF ~(Len(d[j].p) = 1 /\ IsInt(d[j].p[1])) THEN -1
    ELSE LET last_id == d[j].last
             floor == IF last_id = None \/ last_id = <<0>> THEN -1
                      ELSE last_id[1]
         IN IF i % tot = ToInt(d[j].p[1]) /\ i > floor THEN j
            ELSE ScanParts(d, i, tot, j + 1)

(* worker(): the message is matched against the owned partitions and       *)
(* run(set_checkpoint(cl, p, i)) writes '<i>,<int(time())>'; no code reads *)
(* the time field, which is therefore held at its clamp.                   *)
Dispatch(w) ==
    /\ \/ pc[w] = "dispatch"
       \/ /\ pc[w] = "loop"
          /\ idx[w] < NumMsgs
          /\ ~(0 - last_checkin[w] > CHECKIN)
    /\ LET j == ScanParts(parts[w], idx[w], total_parts[w], 1)
           fl == FlushAll(store, rev[w], sched[w], LeaseExpired(w))
       IN IF j = -1
          THEN Raise(w) /\ rev' = [rev EXCEPT ![w] = 0] /\ store' = store
          ELSE IF j = 0
          THEN /\ idx' = [idx EXCEPT ![w] = idx[w] + 1]
               /\ pc' = [pc EXCEPT ![w] = "loop"]
               /\ UNCHANGED <<store, rev, sched, rq, parts, total_parts,
                              last_checkin, lease>>
          ELSE /\ store' = FakePut(fl.s, <<"checkpoint", parts[w][j].p[1]>>,
                                   <<idx[w], 0>>)
               /\ rev' = [rev EXCEPT ![w] = fl.rev]
               /\ sched' = [sched EXCEPT ![w] = <<>>]
               /\ rq' = [rq EXCEPT ![w].slot = j]
               /\ pc' = [pc EXCEPT ![w] = "output"]
               /\ UNCHANGED <<idx, parts, total_parts, last_checkin, lease>>
    /\ UNCHANGED <<main, out, crashes>>

(* worker(): parts[p] = i; output(msg or i), the producer's msg being None *)
Output(w) ==
    /\ pc[w] = "output"
    /\ parts' = [parts EXCEPT ![w][rq[w].slot].last = <<idx[w]>>]
    /\ out' = Append(out, idx[w])
    /\ idx' = [idx EXCEPT ![w] = idx[w] + 1]
    /\ rq' = [rq EXCEPT ![w] = NoFrame]
    /\ pc' = [pc EXCEPT ![w] = "loop"]
    /\ UNCHANGED <<main, store, total_parts, last_checkin, rev, lease,
                   sched, crashes>>

(* A worker process is killed. *)
Crash(w) ==
    /\ pc[w] \notin {"start", "done", "crashed"}
    /\ crashes < MaxCrashes
    /\ crashes' = crashes + 1
    /\ Raise(w)
    /\ rev' = [rev EXCEPT ![w] = 0]
    /\ UNCHANGED <<main, store, out>>

(* TickLen seconds pass: every held clock value moves into the past. *)
Tick ==
    /\ store' = [i \in 1..Len(store) |->
                    IF store[i].k[1] = "workers"
                    THEN [k |-> store[i].k,
                          v |-> <<Later(store[i].v[1], TickLen, -1)>>]
                    ELSE store[i]]
    /\ lease' = [w \in DOMAIN lease |->
                    IF lease[w] = None THEN None
                    ELSE <<Later(lease[w][1], TickLen, -1)>>]
    /\ last_checkin' = [w \in DOMAIN last_checkin |->
                           Later(last_checkin[w], TickLen, LongAgo)]
    /\ rq' = [w \in DOMAIN rq |->
                 IF pc[w] = "poll"
                 THEN [rq[w] EXCEPT !.starttime =
                          Later(rq[w].starttime, TickLen, 0 - ReqTimeout)]
                 ELSE rq[w]]
    /\ UNCHANGED <<main, out, pc, idx, parts, total_parts, rev, sched, crashes>>

Next ==
    \/ ParentInit
    \/ Tick
    \/ \E w \in Workers :
          \/ Register(w)
          \/ Done(w)
          \/ Respond(w)
          \/ ReadParts(w)
          \/ GroupCheck(w)
          \/ GroupPut(w)
          \/ Overwork(w)
          \/ Poll(w)
          \/ Finish(w)
          \/ Dispatch(w)
          \/ Output(w)
          \/ Crash(w)

Spec == Init /\ [][Next]_vars

TypeOK == \A w \in Workers : idx[w] \in 0..NumMsgs

\* ------------------------------------------------- init as a function
(* The stores init may be handed: the empty one, and an initialized one    *)
(* after some of the writes workers make.                                  *)
MaxInitParts == 3

InitExtras ==
    << [k |-> <<"workers", "a", MyIp>>, v |-> <<CHECKIN * LeaseFactor>>],
       [k |-> <<"parts", "a">>, v |-> <<"0">>],
       [k |-> <<"checkpoint", "0">>, v |-> <<0, 0>>],
       [k |-> <<"group-req", "0", "a">>, v |-> <<"int", 2>>],
       [k |-> <<"parts", "unassigned", "0">>, v |-> <<"meta", 2>>] >>

RECURSIVE WithEntries(_, _, _)
WithEntries(s, chosen, i) ==
    IF i > Len(InitExtras) THEN s
    ELSE WithEntries(IF i \in chosen
                     THEN SetItem(s, InitExtras[i].k, InitExtras[i].v)
                     ELSE s,
                     chosen, i + 1)

InitInputs ==
    {<<>>} \cup {WithEntries(InitStore(<<>>, P0), chosen, 1) :
                    P0 \in 1..MaxInitParts,
                    chosen \in SUBSET (1..Len(InitExtras))}

InitSpecInit ==
    /\ main = "init"
    /\ store \in InitInputs
    /\ out = <<>>
    /\ pc = [w \in Workers |-> "start"]
    /\ idx = [w \in Workers |-> 0]
    /\ parts = [w \in Workers |-> <<>>]
    /\ total_parts = [w \in Workers |-> 0]
    /\ last_checkin = [w \in Workers |-> LongAgo]
    /\ rev = [w \in Workers |-> 0]
    /\ lease = [w \in Workers |-> None]
    /\ sched = [w \in Workers |-> <<>>]
    /\ rq = [w \in Workers |-> NoFrame]
    /\ crashes = 0

(* run(init(cl, P)) in the parent: it returns, or the exception ends the   *)
(* parent with its message.                                                *)
InitCall(P) ==
    /\ main = "init"
    /\ store' = init(store, P).s
    /\ main' = IF init(store, P).err = "" THEN "returned"
               ELSE init(store, P).err
    /\ rev' = [w \in DOMAIN rev |-> Bump(rev[w], 1)]
    /\ UNCHANGED <<out, pc, idx, parts, total_parts, last_checkin, lease,
                   sched, rq, crashes>>

InitNext == \E P \in 1..MaxInitParts : InitCall(P)

InitSpec == InitSpecInit /\ [][InitNext]_vars

\* ------------------------------------------- req_parts called on its own
(* run(req_parts(c, myid)) as the doctests of req_parts call it: on the    *)
(* store FakeClient.preload leaves, or on a store init has just filled,    *)
(* with or without workers a and b registered and the caller registered or *)
(* not.                                                                    *)
Caller == "t"

Preload ==
    << [k |-> <<"init">>, v |-> <<"1">>],
       [k |-> <<"parts", "total">>, v |-> <<"7">>],
       [k |-> <<"parts", "a">>, v |-> <<"1", "2", "5", "0">>],
       [k |-> <<"parts", "b">>, v |-> <<"3", "4">>],
       [k |-> <<"checkpoint", "1">>, v |-> <<0, 0>>],
       [k |-> <<"workers", "a">>, v |-> <<-1>>],
       [k |-> <<"workers", "b">>, v |-> <<-1>>],
       [k |-> <<"parts", "unassigned", "6">>, v |-> <<"int", 0>>] >>

RECURSIVE WithWorkers(_, _)
WithWorkers(s, ws) ==
    IF ws = {} THEN s
    ELSE LET w == CHOOSE x \in ws : \A y \in ws : x = y \/ x = "a"
         IN WithWorkers(FakePut(s, <<"workers", w, MyIp>>,
                                <<CHECKIN * LeaseFactor>>),
                        ws \ {w})

DocStores ==
    {Preload} \cup {WithWorkers(InitStore(<<>>, P), ws) :
                      P \in 1..MaxInitParts, ws \in SUBSET Workers}

DocInit ==
    /\ main = "forked"
    /\ store \in DocStores
    /\ out = <<>>
    /\ pc = [w \in {Caller} |-> "start"]
    /\ idx = [w \in {Caller} |-> 0]
    /\ parts = [w \in {Caller} |-> <<>>]
    /\ total_parts = [w \in {Caller} |-> 0]
    /\ last_checkin = [w \in {Caller} |-> LongAgo]
    /\ rev = [w \in {Caller} |-> IF store = Preload THEN 0 ELSE Bump(0, 1)]
    /\ lease = [w \in {Caller} |-> None]
    /\ sched = [w \in {Caller} |-> <<>>]
    /\ rq = [w \in {Caller} |-> NoFrame]
    /\ crashes = 0

(* run(req_parts(c, w)) is entered, before or after register; the call    *)
(* rests at "dispatch" once it has returned.                               *)
Call(w) ==
    /\ pc[w] \in {"start", "loop"}
    /\ pc' = [pc EXCEPT ![w] = "req_parts"]
    /\ rq' = [rq EXCEPT ![w] = NoFrame]
    /\ UNCHANGED <<main, store, out, idx, parts, total_parts, last_checkin,
                   rev, lease, sched, crashes>>

DocNext ==
    \/ Tick
    \/ Register(Caller)
    \/ Call(Caller)
    \/ ReadParts(Caller)
    \/ GroupCheck(Caller)
    \/ GroupPut(Caller)
    \/ Overwork(Caller)
    \/ Poll(Caller)
    \/ Finish(Caller)

DocSpec == DocInit /\ [][DocNext]_vars

\* --------------------------------------------- respond called on its own
(* run(respond(c, w, myparts)) as the doctest of respond calls it: on the  *)
(* store FakeClient.preload leaves, after some requests of a worker foo    *)
(* have been put, by the workers a and b, registered, with what parts/a    *)
(* and parts/b list as their partitions.                                   *)
Requests ==
    << [k |-> <<"group-req", "4", "foo">>, v |-> <<"int", 0>>],
       [k |-> <<"group-req", "5", "foo">>, v |-> <<"int", 0>>],
       [k |-> <<"group-req", "6", "foo">>, v |-> <<"int", 0>>],
       [k |-> <<"req", "a">>, v |-> <<"foo", 0>>],
       [k |-> <<"req", "b">>, v |-> <<"foo", 0>>] >>

RECURSIVE WithRequests(_, _, _)
WithRequests(s, chosen, i) ==
    IF i > Len(Requests) THEN s
    ELSE WithRequests(IF i \in chosen
                      THEN FakePut(s, Requests[i].k, Requests[i].v)
                      ELSE s,
                      chosen, i + 1)

RespondStores ==
    {WithRequests(WithWorkers(Preload, Workers), chosen, 1) :
        chosen \in SUBSET (1..Len(Requests))}

RespondInit ==
    /\ main = "forked"
    /\ store \in RespondStores
    /\ out = <<>>
    /\ pc = [w \in Workers |-> "loop"]
    /\ idx = [w \in Workers |-> 0]
    /\ parts = [w \in Workers |->
                  [j \in 1..Len(Lookup(Preload, <<"parts", w>>)) |->
                      [p |-> <<Lookup(Preload, <<"parts", w>>)[j]>>,
                       last |-> None]]]
    /\ total_parts = [w \in Workers |-> 7]
    /\ last_checkin = [w \in Workers |-> LongAgo]
    /\ rev = [w \in Workers |-> 0]
    /\ lease = [w \in Workers |-> <<CHECKIN * LeaseFactor>>]
    /\ sched = [w \in Workers |-> <<>>]
    /\ rq = [w \in Workers |-> NoFrame]
    /\ crashes = 0

RespondNext == \E w \in Workers : Respond(w)

RespondSpec == RespondInit /\ [][RespondNext]_vars

\* ------------------------------------------------------------ observations
(* The partition ids listed in the stored assignment entry of worker w. *)
assigned(w) ==
    IF HasKey(store, <<"parts", w>>)
    THEN {Lookup(store, <<"parts", w>>)[i] :
            i \in 1..Len(Lookup(store, <<"parts", w>>))} \ {""}
    ELSE {}

(* The partition ids offered as unassigned slots. *)
unassigned_slots ==
    {store[i].k[3] : i \in {j \in 1..Len(store) :
        Len(store[j].k) = 3 /\ store[j].k[1] = "parts"
        /\ store[j].k[2] = "unassigned"}}

InCheckin(w) == pc[w] \in {"req_parts", "unassigned", "groupput", "poll"}

(* No worker is inside a checkin, nothing is scheduled and no request key  *)
(* is in the store.                                                        *)
Quiescent ==
    /\ \A w \in Workers : ~InCheckin(w) /\ sched[w] = <<>>
    /\ \A i \in 1..Len(store) : store[i].k[1] \notin {"req", "group-req"}

\* C1: at quiescence no partition id is listed in the stored assignment
\* entries of two distinct workers.
C1_SingleOwnership ==
    Quiescent =>
        \A a \in Workers : \A b \in Workers \ {a} :
            assigned(a) \cap assigned(b) = {}

(* The fields of the stored assignment entry of w that name a partition. *)
assigned_list(w) ==
    IF HasKey(store, <<"parts", w>>)
    THEN SelectSeq(Lookup(store, <<"parts", w>>), LAMBDA f : f # "")
    ELSE <<>>

RECURSIVE SumAssigned(_)
SumAssigned(ws) ==
    IF ws = {} THEN 0
    ELSE LET w == CHOOSE x \in ws : TRUE
         IN Len(assigned_list(w)) + SumAssigned(ws \ {w})

\* C2: at quiescence after init(P), the partitions listed over all workers
\* plus the unassigned slots number exactly P.
C2_Conservation ==
    (main = "forked" /\ Quiescent) =>
        SumAssigned(Workers) + Cardinality(unassigned_slots) = NumParts

(* The id stored in checkpoint/<p>, or None. *)
checkpoint_id(p) ==
    IF HasKey(store, <<"checkpoint", p>>)
    THEN <<Lookup(store, <<"checkpoint", p>>)[1]>>
    ELSE None

Running(w) == pc[w] \notin {"start", "done", "crashed"}

InOut(i) == \E n \in 1..Len(out) : out[n] = i

(* The entry of worker w's ownership map for the partition of message i. *)
OwnsPartitionOf(w, i) ==
    \E n \in 1..Len(parts[w]) :
        /\ Len(parts[w][n].p) = 1
        /\ IsInt(parts[w][n].p[1])
        /\ i % total_parts[w] = ToInt(parts[w][n].p[1])

\* C3: a message that arrives at a worker owning its partition is passed to
\* the sink by that worker, unless it has been passed to a sink before or a
\* running worker is about to pass it.
C3_AtLeastOnce ==
    [][\A w \in Workers :
          (/\ pc[w] \in {"loop", "dispatch"}
           /\ pc'[w] = "loop"
           /\ idx'[w] = idx[w] + 1
           /\ OwnsPartitionOf(w, idx[w]))
          => \/ InOut(idx[w])
             \/ \E v \in Workers : pc[v] = "output" /\ idx[v] = idx[w]]_vars

\* C4: a worker passes to the sink a message of a partition it claimed with
\* stored checkpoint last_id only when the message id is above last_id.
C4_NoReplay ==
    \A w \in Workers :
        pc[w] = "output" =>
            LET last_id == parts[w][rq[w].slot].last
            IN last_id # None => idx[w] > last_id[1]

\* C5: the id stored in checkpoint/<p> never decreases.
C5_MonotonicCheckpoints ==
    [][\A n \in 0..(NumParts - 1) :
          (checkpoint_id(Str(n)) # None)
          => /\ checkpoint_id(Str(n))' # None
             /\ checkpoint_id(Str(n))'[1] >= checkpoint_id(Str(n))[1]]_vars

\* C6: the map returned by req_parts has exactly the single partition ids
\* stored in parts/<myid> as its keys.
C6_ReturnedMap ==
    \A w \in Workers :
        pc[w] = "dispatch" =>
            /\ \A n \in 1..Len(parts[w]) :
                  Len(parts[w][n].p) = 1 /\ IsInt(parts[w][n].p[1])
            /\ {parts[w][n].p : n \in 1..Len(parts[w])}
                  = {<<f>> : f \in assigned(w)}

\* C8: while a worker runs, its registration entry exists with a deadline
\* that has not passed.
C8_Registered ==
    \A w \in Workers :
        Running(w) =>
            /\ HasKey(store, <<"workers", w, MyIp>>)
            /\ ~(0 > Lookup(store, <<"workers", w, MyIp>>)[1])

(* The revision stored in the group request of worker t for partition p. *)
group_req_rev(p, t) == Lookup(store, <<"group-req", p, t>>)[2]

\* C9: a worker whose group request for a partition carries revision R2 is
\* not granted the partition while another worker's group request for the
\* same partition with a revision R1 < R2 is outstanding.
C9_TieBreak ==
    [][\A t1 \in Workers : \A t2 \in Workers \ {t1} :
       \A n \in 0..(NumParts - 1) :
          (/\ pc[t2] = "poll"
           /\ HasKey(store, <<"group-req", Str(n), t1>>)
           /\ HasKey(store, <<"group-req", Str(n), t2>>)
           /\ group_req_rev(Str(n), t1) < group_req_rev(Str(n), t2)
           /\ \A i \in 1..Len(rq[t2].acks) : rq[t2].acks[i] # <<Str(n)>>)
          => \A i \in 1..Len(rq[t2].acks') : rq[t2].acks'[i] # <<Str(n)>>]_vars

(* The ids of partition p that have been passed to the sink. *)
processed(p) == {out[n] : n \in {m \in 1..Len(out) : Str(out[m] % NumParts) = p}}

MaxOf(S) == CHOOSE x \in S : \A y \in S : y <= x

(* Worker B leaves req_parts having confirmed the ack of recipient A. *)
DirectDone(A, B) ==
    /\ pc[B] = "poll"
    /\ pc'[B] = "dispatch"
    /\ \E i \in 1..Len(sched[B]) : sched[B][i] = Task("del", <<"ack", B, A>>, <<>>)
    /\ HasKey(store, <<"ack", B, A>>)

\* C10: when a direct transfer of p from A to B has completed, p is gone
\* from parts/<A> and listed in parts/<B>, req/<A> and ack/<B>/<A> are
\* deleted, and checkpoint/<p> holds the last id processed for p.
C10_DirectTransfer ==
    [][\A A \in Workers : \A B \in Workers \ {A} :
          DirectDone(A, B) =>
             LET p == Lookup(store, <<"ack", B, A>>)[2]
             IN /\ p \notin assigned(A)'
                /\ p \in assigned(B)'
                /\ ~HasKey(store', <<"req", A>>)
                /\ ~HasKey(store', <<"ack", B, A>>)
                /\ checkpoint_id(p)' # None
                /\ processed(p)' # {} =>
                       checkpoint_id(p)'[1] = MaxOf(processed(p)')]_vars

(* The processes keep being scheduled, the producers keep delivering and  *)
(* time keeps passing: a run does not stop while a step can be taken. A   *)
(* run that obeys this ends with no step left to take, so it also obeys   *)
(* weak fairness of every single process.                                 *)
LiveSpec == Spec /\ WF_vars(Next)

\* C7: once no further process is killed, a partition listed in the
\* assignment of a crashed worker while another worker is running is
\* eventually listed in the assignment of a running worker, unless a worker
\* runs out of messages first.
C7_Reclamation ==
    \A a \in Workers : \A n \in 0..(NumParts - 1) :
        (/\ pc[a] = "crashed"
         /\ Str(n) \in assigned(a)
         /\ crashes = MaxCrashes
         /\ \E b \in Workers : Running(b))
        ~> \/ \E b \in Workers : Running(b) /\ Str(n) \in assigned(b)
           \/ \E b \in Workers : pc[b] = "done"

\* C11: init on a store whose init flag already holds '1' ends with the
\* exception 'Store already initialized.' and leaves every key as it was.
C11_InitTwice ==
    [][\A P \in 1..MaxInitParts :
          (InitCall(P) /\ get_single_value(store, <<"init">>) = <<"1">>)
          => (main' = InitError /\ store' = store)]_vars

C11_Witness ==
    /\ main = InitError
    /\ get_single_value(store, <<"init">>) = <<"1">>
    /\ HasKey(store, <<"parts", "a">>)

\* C12: init(P) on the empty store returns with the init flag '1',
\* parts/total = P and exactly the P unassigned slots 0 .. P-1, for every
\* P from 1 up.
C12_InitFresh ==
    [][\A P \in 1..MaxInitParts :
          (InitCall(P) /\ store = <<>>)
          => /\ main' = "returned"
             /\ HasKey(store', <<"init">>)
             /\ Lookup(store', <<"init">>) = <<"1">>
             /\ HasKey(store', <<"parts", "total">>)
             /\ Lookup(store', <<"parts", "total">>) = <<Str(P)>>
             /\ unassigned_slots' = {Str(n) : n \in 0..(P - 1)}
             /\ Len(store') = P + 2]_vars

C12_Witness ==
    /\ main = "returned"
    /\ Lookup(store, <<"parts", "total">>) = <<Str(MaxInitParts)>>
    /\ unassigned_slots = {Str(n) : n \in 0..(MaxInitParts - 1)}

(* The call of w returns in this step without the request timer having    *)
(* seen time pass.                                                         *)
Returns(w) ==
    /\ pc[w] \in {"unassigned", "poll"}
    /\ pc'[w] = "dispatch"
    /\ rq[w].starttime = 0

(* Nothing but init and w itself has written to the store. *)
FreshFor(w) ==
    \A i \in 1..Len(store) :
        /\ store[i].k[1] \in {"init", "parts", "workers", "group-req", "ack"}
        /\ store[i].k[1] = "parts" => store[i].k[2] \in {"total", "unassigned"}
        /\ store[i].k[1] = "workers" => store[i].k[2] = w
        /\ store[i].k[1] = "group-req" => store[i].k[3] = w

StoredTotal == ToInt(Lookup(store, <<"parts", "total">>)[1])

LiveWorkers ==
    Cardinality({i \in 1..Len(store) :
                    store[i].k[1] = "workers" /\ store[i].v[1] >= 0})

Registrations ==
    Cardinality({i \in 1..Len(store) : store[i].k[1] = "workers"})

(* The keys of the group requests and direct requests in store s. *)
RequestKeys(s) ==
    {s[i].k : i \in {j \in 1..Len(s) : s[j].k[1] \in {"group-req", "req"}}}

(* req_parts has just computed the fair share of w. *)
FairComputed(w) == pc[w] = "req_parts" /\ pc'[w] = "unassigned"

(* This step is no acquisition by w: a share computed in it is 0, no      *)
(* request key appears, and a call returning in it returns no partition.   *)
NoAcquisition(w) ==
    /\ FairComputed(w) => rq'[w].fair = 0
    /\ RequestKeys(store') \subseteq RequestKeys(store)
    /\ (pc[w] # "dispatch" /\ pc'[w] = "dispatch") => parts'[w] = <<>>

\* C15: the fair share a checkin computes is floor(P / max(1, n)), n being
\* the number of registrations whose deadline has not passed; registrations
\* past their deadline are not counted.
C15_FairLive ==
    [][\A w \in DOMAIN pc :
          FairComputed(w)
          => rq'[w].fair = rq'[w].total \div Max(1, LiveWorkers)]_vars

C17_MoreWorkersThanParts ==
    [][\A w \in DOMAIN pc :
          (/\ LiveWorkers > StoredTotal
           /\ pc[w] # "start"
           /\ assigned(w) = {})
          => NoAcquisition(w)]_vars

C17_Witness ==
    /\ pc[Caller] = "dispatch"
    /\ LiveWorkers > StoredTotal
    /\ HasKey(store, <<"workers", Caller, MyIp>>)
    /\ HasKey(store, <<"parts", Caller>>)
    /\ assigned(Caller) = {}
    /\ parts[Caller] = <<>>
    /\ total_parts[Caller] = StoredTotal

(* The workers whose group request for partition part is in the store. *)
GroupRequestors(part) ==
    {store[i].k[3] : i \in {j \in 1..Len(store) :
        Len(store[j].k) = 3 /\ store[j].k[1] = "group-req"
        /\ store[j].k[2] = part}}

\* C18: group requests are idempotent.  A worker that finds a group request
\* for a partition in the store, whoever issued it, writes nothing and gets
\* no pending request; so at most one group request per partition is
\* outstanding at any time, also when two workers' checkins overlap.
C18_OneGroupRequest ==
    \A n \in 0..(NumParts - 1) : Cardinality(GroupRequestors(Str(n))) <= 1

(* w is the only worker process that has started, and none was killed. *)
OnlyWorker(w) ==
    /\ main = "forked"
    /\ crashes = 0
    /\ \A v \in DOMAIN pc \ {w} : pc[v] = "start"

\* C19: a single worker on a freshly initialized store passes every message
\* its producer yields to the sink exactly once and in the producer's
\* order, however many checkins happen on the way: the sink holds a prefix
\* of the produced ids at any time, and all of them once the worker has
\* ended.
C19_SingleWorker ==
    \A w \in DOMAIN pc :
        OnlyWorker(w)
        => /\ out = [i \in 1..Len(out) |-> i - 1]
           /\ pc[w] \in {"done", "crashed"} => Len(out) = NumMsgs

\* C20: graceful shutdown.  When the processing loop of a worker has ended
\* normally, its registration entry is deleted and every partition it
\* owned is offered in parts/unassigned.
C20_Shutdown ==
    \A w \in DOMAIN pc :
        pc[w] = "done"
        => /\ ~HasKey(store, <<"workers", w, MyIp>>)
           /\ assigned(w) \subseteq unassigned_slots

(* respond(cl, w, parts) runs in this step, with nothing left scheduled   *)
(* on the loop of w that could write first.                                *)
Responds(w) == pc[w] = "loop" /\ pc'[w] = "req_parts" /\ sched[w] = <<>>

(* The partitions worker() of w holds in its parts dictionary. *)
Owned(w) == {parts[w][j].p : j \in 1..Len(parts[w])}

(* The key respond writes its vote to. *)
VoteKey(r) == <<"ack", r.k[3], "group", Str(r.v[2]), r.k[2]>>

\* C21: the voter rule.  For every outstanding group request (partition p,
\* requestor, rev) a responding voter writes OK exactly when it does not
\* own p and the revision of p's unassigned slot equals rev, and DENY
\* otherwise; a slot nobody has written since init has the revision every
\* requestor read, so a voter that does not own p votes OK on it.
C21_VoterRule ==
    [][\A w \in DOMAIN pc :
          Responds(w)
          => \A i \in 1..Len(store) :
                store[i].k[1] = "group-req"
                => LET r == store[i]
                       slot == <<"parts", "unassigned", r.k[2]>>
                   IN /\ HasKey(store', VoteKey(r))
                      /\ (<<r.k[2]>> \in Owned(w) \/ ~HasKey(store, slot))
                            => Lookup(store', VoteKey(r)) = <<"0">>
                      /\ (/\ <<r.k[2]>> \notin Owned(w)
                          /\ HasKey(store, slot)
                          /\ Lookup(store, slot) = <<"int", 0>>)
                            => Lookup(store', VoteKey(r)) = <<"1">>]_vars

(* Worker v is registered with a deadline that has not passed. *)
Live(v) ==
    \E i \in 1..Len(store) :
        /\ store[i].k[1] = "workers" /\ store[i].k[2] = v
        /\ store[i].v[1] >= 0

(* The group request g of w is confirmed in this step. *)
GroupGranted(w, g) ==
    /\ pc[w] = "poll"
    /\ g.group
    /\ \E j \in 1..Len(rq[w].pending) : rq[w].pending[j] = g
    /\ \E j \in (Len(rq[w].acks) + 1)..Len(rq'[w].acks) :
          rq'[w].acks[j] = g.part

(* The votes in store s: the entries under ack/<requestor>/group/. *)
Votes(s) ==
    {s[i].k : i \in {j \in 1..Len(s) :
        Len(s[j].k) >= 3 /\ s[j].k[1] = "ack" /\ s[j].k[3] = "group"}}

\* C22: a group request succeeds only when every live peer other than the
\* requestor has a recorded OK vote for that (requestor, revision,
\* partition); and every vote is recorded under its voter's own key
\* ack/<requestor>/group/<revision>/<partition>/<voter>, so that no vote is
\* overwritten or hidden by another voter's.
C22_AllPeersOK ==
    [][/\ \A w \in DOMAIN pc :
            \A j \in 1..Len(rq[w].pending) :
               GroupGranted(w, rq[w].pending[j])
               => \A v \in DOMAIN pc \ {w} :
                     Live(v)
                     => LET g == rq[w].pending[j]
                            key == <<"ack", w, "group", Str(g.revision),
                                     g.part[1], v>>
                        IN HasKey(store, key) /\ Lookup(store, key) = <<"1">>
       /\ \A k \in Votes(store') : Len(k) = 6 /\ k[6] \in DOMAIN pc]_vars

\* C23: group requests are live.  While two live workers run and keep
\* checking in, a partition that is offered as unassigned and that nobody
\* holds is eventually listed in a worker's assignment, unless a worker
\* runs out of messages or is killed first.
C23_GroupLive ==
    \A n \in 0..(NumParts - 1) :
        (/\ crashes = 0
         /\ \A w \in Workers : Running(w) /\ Live(w)
         /\ Str(n) \in unassigned_slots
         /\ \A w \in Workers : Str(n) \notin assigned(w))
        ~> \/ \E w \in Workers : Str(n) \in assigned(w)
           \/ \E w \in Workers : pc[w] = "done"
           \/ crashes > 0

\* C24: once a group request for partition p has succeeded the key
\* parts/unassigned/<p> is gone: a partition listed in a worker's
\* assignment is never offered as an unassigned slot.
C24_SlotRemoved ==
    \A w \in DOMAIN pc : assigned(w) \cap unassigned_slots = {}

(* The keys worker w's group requests left in store s: the requests and   *)
(* the votes collected for them.                                           *)
GroupRequestKeys(s, w) ==
    {s[i].k : i \in {j \in 1..Len(s) :
        \/ s[j].k[1] = "group-req" /\ s[j].k[Len(s[j].k)] = w
        \/ Len(s[j].k) >= 3 /\ s[j].k[1] = "ack" /\ s[j].k[2] = w
             /\ s[j].k[3] = "group"}}

\* C25: group-request cleanup.  Once the group requests of a worker are
\* resolved (by success, DENY or the request timer) and its event loop has
\* nothing left to run, neither its request keys group-req/<p>/<id> nor
\* any vote collected for them is in the store.
C25_GroupCleanup ==
    \A w \in DOMAIN pc :
        (pc[w] \in {"loop", "dispatch", "output", "done"} /\ sched[w] = <<>>)
        => GroupRequestKeys(store, w) = {}

(* The direct requests worker w has outstanding. *)
DirectPending(w) ==
    {rq[w].pending[j] : j \in {i \in 1..Len(rq[w].pending) :
                                  ~rq[w].pending[i].group}}

\* C26: acks match revisions.  Whenever a requestor has a direct request
\* outstanding, an ack it can read under ack/<requestor>/<recipient>
\* carries the revision it wrote in that request, also when an earlier
\* request to the same recipient ran into the request timer.
C26_AckRevision ==
    \A w \in DOMAIN pc :
        pc[w] = "poll"
        => \A p \in DirectPending(w) :
              HasKey(store, SingleAckKey(p))
              => Lookup(store, SingleAckKey(p))[1] = p.revision

(* A direct request of w is answered by an ack of another revision. *)
Mismatched(w) ==
    \E p \in DirectPending(w) :
        /\ HasKey(store, SingleAckKey(p))
        /\ Lookup(store, SingleAckKey(p))[1] # p.revision

\* C27: a direct ack of the wrong revision makes the worker discard that
\* request only: the worker process does not end at the checkin that reads
\* such an ack (unless it is killed), it finishes the checkin and goes on.
C27_MismatchSurvived ==
    [][\A w \in DOMAIN pc :
          (/\ pc[w] = "poll"
           /\ Mismatched(w)
           /\ ~LeaseExpired(w)
           /\ pc'[w] = "crashed")
          => crashes' = crashes + 1]_vars

\* C28: the respond phase serves direct requests.  A worker that owns a
\* partition and finds req/<myid> when its checkin runs respond gives one
\* partition away in that checkin: the partition leaves its assignment and
\* ack/<requestor>/<myid> carries the revision of the request.
C28_DirectServed ==
    [][\A w \in DOMAIN pc :
          (/\ Responds(w)
           /\ Live(w)
           /\ HasKey(store, <<"req", w>>)
           /\ parts[w] # <<>>
           /\ assigned(w) # {})
          => LET r == Lookup(store, <<"req", w>>)
             IN /\ HasKey(store', <<"ack", r[1], w>>)
                /\ Lookup(store', <<"ack", r[1], w>>)[1] = r[2]
                /\ \E p \in assigned(w) :
                      assigned(w)' = assigned(w) \ {p}]_vars

(* req_parts of w returns in this step with requests still pending. *)
TimedOut(w) ==
    pc[w] = "poll" /\ pc'[w] = "dispatch" /\ Len(rq[w].pending) > 0

(* The store key of a pending request. *)
RequestKey(p) ==
    IF p.group THEN group_req_key(p) ELSE <<"req", p.recipient[1]>>

\* C29: request-phase timeout.  When req_parts returns with requests still
\* pending, the store key of every such request (req/<recipient> or
\* group-req/<p>/<myid>) is deleted by the time the call has returned,
\* hence before the next checkin, and every partition acquired in the
\* checkin is in the returned map and in the stored parts/<myid>.
C29_TimeoutCleanup ==
    [][\A w \in DOMAIN pc :
          TimedOut(w)
          => /\ \A j \in 1..Len(rq[w].pending) :
                   ~HasKey(store', RequestKey(rq[w].pending[j]))
             /\ \A j \in 1..Len(rq[w].acks) :
                   /\ \E n \in 1..Len(parts'[w]) :
                         parts'[w][n].p = rq[w].acks[j]
                   /\ HasKey(store', <<"parts", w>>)
                   /\ \A f \in 1..Len(rq[w].acks[j]) :
                         \E n \in 1..Len(Lookup(store', <<"parts", w>>)) :
                            Lookup(store', <<"parts", w>>)[n] = rq[w].acks[j][f]]_vars

C29_Witness ==
    \E w \in Workers :
        /\ OnlyWorker(w)
        /\ pc[w] = "dispatch"
        /\ total_parts[w] = NumParts
        /\ Len(parts[w]) = 1
        /\ Cardinality(assigned(w)) = 1
        /\ RequestKeys(store) = {}

(* Recipient B has granted partition part to requestor A: the direct ack   *)
(* naming the partition is in the store.                                   *)
Granted(A, B, part) ==
    /\ HasKey(store, <<"ack", A, B>>)
    /\ Lookup(store, <<"ack", A, B>>)[2] = part

DeadReported(w, v) ==
    \E i \in 1..Len(sched[w]) : sched[w][i] = Task("del", <<"workers", v>>, <<>>)

(* Peer v has a registration key workers/<v>/<ip> in the store. *)
Registered(v) ==
    \E i \in 1..Len(store) :
        Len(store[i].k) = 3 /\ store[i].k[1] = "workers" /\ store[i].k[2] = v

\* C31: when the is-dead check has reported a peer dead and the deletion it
\* scheduled has run on the reporting worker's event loop (the worker going
\* on), the peer's registration key workers/<peer>/<ip> is no longer in the
\* store.
C31_DeadRemoved ==
    [][\A w \in Workers : \A v \in Workers \ {w} :
          (/\ DeadReported(w, v)
           /\ ~DeadReported(w, v)'
           /\ pc'[w] \notin {"crashed", "done"})
          => ~Registered(v)']_vars

\* C32: acquisition stops at the fair share.  A worker whose stored
\* assignment already lists fair or more partitions has no request of its
\* own pending in a checkin: it issues neither a group nor a direct request.
C32_StopsAtFair ==
    \A w \in Workers :
        (/\ pc[w] \in {"unassigned", "groupput", "poll"}
         /\ Len(assigned_list(w)) >= rq[w].fair)
        => Len(rq[w].pending) = 0

(* In this step worker w's checkin issues a direct request to peer v. *)
DirectIssued(w, v) ==
    /\ pc[w] = "unassigned"
    /\ pc'[w] = "poll"
    /\ \E j \in 1..Len(rq'[w].pending) :
          /\ ~rq'[w].pending[j].group
          /\ rq'[w].pending[j].recipient = <<v>>

\* C33: acquisition order within one checkin.  Direct requests are issued
\* behind the group requests, while fewer than fair requests are pending;
\* all requests of the checkin together number at most fair, and a direct
\* request goes only to a live worker: one whose registration deadline has
\* not passed.
C33_DirectOrder ==
    [][\A w \in Workers : \A v \in Workers :
          DirectIssued(w, v)
          => /\ Len(rq[w].pending) < rq[w].fair
             /\ Len(rq'[w].pending) <= rq[w].fair
             /\ Live(v)]_vars

(* In this step worker w's message loop calls the sink. *)
Delivered(w) == pc[w] = "output" /\ pc'[w] = "loop"

(* In this step worker w's set_checkpoint for its current message returns. *)
CheckpointWritten(w) == pc[w] # "output" /\ pc'[w] = "output"

C35_RequestPhaseEnds ==
    \A w \in Workers :
        (InCheckin(w) /\ crashes = MaxCrashes)
        ~> pc[w] \in {"dispatch", "output", "loop", "done"}

(* The partition whose checkpoint worker w has just written: w is between  *)
(* set_checkpoint and the call of the sink.                                *)
Writing(w) ==
    IF pc[w] = "output" THEN {parts[w][rq[w].slot].p[1]} ELSE {}

\* C36: single writer for checkpoints.  A worker that has just written
\* checkpoint/<p> has p listed in its stored assignment parts/<id>, and no
\* two different workers have just written the checkpoint of the same
\* partition.
C36_SingleWriter ==
    /\ \A w \in Workers : Writing(w) \subseteq assigned(w)
    /\ \A a \in Workers : \A b \in Workers \ {a} :
          Writing(a) \cap Writing(b) = {}

(* In this step worker w's req_parts returns without any request of the   *)
(* checkin having been acknowledged.                                       *)
ReturnsUngranted(w) ==
    /\ pc[w] \in {"unassigned", "poll"}
    /\ pc'[w] = "dispatch"
    /\ rq[w].acks = <<>>

(* The partitions worker w processes: the keys of its ownership map. *)
Processed(w) == {parts[w][i].p : i \in 1..Len(parts[w])}

\* C37: a checkin in which the worker is granted nothing leaves the
\* partitions listed in the stored entry parts/<myid> and the set of
\* partitions the worker processes as they were.
C37_UngrantedCheckin ==
    [][\A w \in Workers :
          ReturnsUngranted(w)
          => /\ assigned_list(w)' = assigned_list(w)
             /\ Processed(w)' = Processed(w)]_vars

\* ------------------------------------------- two workers join a holder
(* Two workers join a cluster of one.  Worker b has registered, has taken  *)
(* every partition of init(P) in its first checkin while it was alone, has *)
(* processed message 0 and stands in req_unassigned_parts of its next      *)
(* checkin, a group request put for the topmost n slots; it takes no step  *)
(* while the joiners run register and req_parts.                           *)
Holder == "b"

Joiners == {"t", "u"}

RECURSIVE WithGroupRequests(_, _, _)
WithGroupRequests(s, P, n) ==
    IF n = 0 THEN s
    ELSE WithGroupRequests(
             FakePut(s, <<"group-req", Str(P - 1), Holder>>, <<"int", MaxRev>>),
             P - 1, n - 1)

HeldStore(P, n) ==
    WithGroupRequests(
        FakePut(FakePut(FakePut(InitStore(<<>>, P),
                                <<"workers", Holder, MyIp>>,
                                <<CHECKIN * LeaseFactor - TickLen>>),
                        <<"parts", Holder>>, [i \in 1..P |-> Str(P - i)]),
                <<"checkpoint", "0">>, <<0, 0>>),
        P, n)

JoinInit ==
    /\ main = "forked"
    /\ store \in UNION {{HeldStore(P, n) : n \in 0..P} : P \in 1..MaxInitParts}
    /\ out = <<0>>
    /\ pc = [w \in Joiners |-> "start"]
    /\ idx = [w \in Joiners |-> 0]
    /\ parts = [w \in Joiners |-> <<>>]
    /\ total_parts = [w \in Joiners |-> 0]
    /\ last_checkin = [w \in Joiners |-> LongAgo]
    /\ rev = [w \in Joiners |-> Bump(0, 1)]
    /\ lease = [w \in Joiners |-> None]
    /\ sched = [w \in Joiners |-> <<>>]
    /\ rq = [w \in Joiners |-> NoFrame]
    /\ crashes = 0

JoinNext ==
    \/ Tick
    \/ \E w \in Joiners :
          \/ Register(w)
          \/ Call(w)
          \/ ReadParts(w)
          \/ GroupCheck(w)
          \/ GroupPut(w)
          \/ Overwork(w)
          \/ Poll(w)
          \/ Finish(w)

JoinSpec == JoinInit /\ [][JoinNext]_vars

\* C38: isolation of direct requests to the same recipient.  While a worker
\* waits in its request loop for the answer to a direct request that the
\* recipient has not answered, the key req/<recipient> holds that worker's
\* request: no other requestor's put has replaced it and no other
\* requestor's cleanup has deleted it.
C38_DirectIsolation ==
    \A w \in DOMAIN pc : \A p \in DirectPending(w) :
        (pc[w] = "poll" /\ ~HasKey(store, SingleAckKey(p)))
        => /\ HasKey(store, <<"req", p.recipient[1]>>)
           /\ Lookup(store, <<"req", p.recipient[1]>>) = <<w, p.revision>>

\* ------------------------------------------------ init, statement by statement
(* Two parents call run(init(cl, P)) on the same empty store, each with    *)
(* its own partition count; every await of init is a step of its own, so   *)
(* the store operations of the two calls interleave.  total_parts holds    *)
(* the argument num_parts of each call, idx the n of the slot put next.    *)
Parents == {"p", "q"}

CoInit ==
    /\ main = "init"
    /\ store = <<>>
    /\ out = <<>>
    /\ pc = [c \in Parents |-> "start"]
    /\ idx = [c \in Parents |-> 0]
    /\ parts = [c \in Parents |-> <<>>]
    /\ total_parts \in [Parents -> 1..MaxInitParts]
    /\ last_checkin = [c \in Parents |-> LongAgo]
    /\ rev = [c \in Parents |-> 0]
    /\ lease = [c \in Parents |-> None]
    /\ sched = [c \in Parents |-> <<>>]
    /\ rq = [c \in Parents |-> NoFrame]
    /\ crashes = 0

(* init: `if await get_single_value(cl, 'init') == b'1': raise`. *)
InitRead(c) ==
    /\ pc[c] = "start"
    /\ pc' = [pc EXCEPT ![c] = IF get_single_value(store, <<"init">>) = <<"1">>
                               THEN "crashed" ELSE "put_init"]
    /\ rev' = [rev EXCEPT ![c] = Bump(rev[c], 1)]
    /\ UNCHANGED <<main, store, out, idx, parts, total_parts, last_checkin,
                   lease, sched, rq, crashes>>

(* init: await cl.put(path('init'), '1') *)
InitFlag(c) ==
    /\ pc[c] = "put_init"
    /\ store' = FakePut(store, <<"init">>, <<"1">>)
    /\ pc' = [pc EXCEPT ![c] = "put_total"]
    /\ UNCHANGED <<main, out, idx, parts, total_parts, last_checkin, rev,
                   lease, sched, rq, crashes>>

(* init: await cl.put(path('parts/total'), str(num_parts)) *)
InitTotal(c) ==
    /\ pc[c] = "put_total"
    /\ store' = FakePut(store, <<"parts", "total">>, <<Str(total_parts[c])>>)
    /\ pc' = [pc EXCEPT ![c] = "put_slots"]
    /\ UNCHANGED <<main, out, idx, parts, total_parts, last_checkin, rev,
                   lease, sched, rq, crashes>>

(* init: one await cl.put(path('parts/unassigned', n), '0') of the list    *)
(* comprehension; behind the last one init returns.                        *)
InitSlot(c) ==
    /\ pc[c] = "put_slots"
    /\ store' = PutUnassigned(store, idx[c], idx[c] + 1)
    /\ idx' = [idx EXCEPT ![c] = idx[c] + 1]
    /\ pc' = [pc EXCEPT ![c] = IF idx[c] + 1 >= total_parts[c]
                               THEN "done" ELSE "put_slots"]
    /\ UNCHANGED <<main, out, parts, total_parts, last_checkin, rev,
                   lease, sched, rq, crashes>>

CoInitNext ==
    \E c \in Parents :
        \/ InitRead(c)
        \/ InitFlag(c)
        \/ InitTotal(c)
        \/ InitSlot(c)

CoInitSpec == CoInit /\ [][CoInitNext]_vars

\* C39: concurrent initialisation.  When two init calls on an empty store
\* have both ended, however their store operations interleaved, the number
\* of parts/unassigned slots equals the stored parts/total, and that total
\* is the partition count of a call that returned.
C39_ConcurrentInit ==
    (\A c \in DOMAIN pc : pc[c] \in {"done", "crashed"})
    => /\ Cardinality(unassigned_slots) = StoredTotal
       /\ \E c \in DOMAIN pc : pc[c] = "done" /\ total_parts[c] = StoredTotal

\* C40: every key under parts/unassigned/ names a partition id in 0..P-1,
\* P being the stored parts/total, also after the partitions of a dead
\* worker whose stored assignment is the empty string have been unassigned.
C40_SlotNames ==
    main = "forked"
    => unassigned_slots \subseteq {Str(n) : n \in 0..(StoredTotal - 1)}

====
